---------------------------- MODULE Spec2Model ----------------------------
(***************************************************************************)
(* rusty_utils (src/src/lib.rs): ternary_operator, reverse_string and      *)
(* concat_arrays, modelled as calls made by caller threads.                *)
(*                                                                         *)
(* A text (&str, String) is its sequence of UTF-8 bytes.  A slice &[T] is  *)
(* a reference (a SliceIds name) into caller-owned memory, heap.  usize is *)
(* UsizeBits wide, so that the sum of line 181 can leave its range.        *)
(***************************************************************************)
EXTENDS Integers, Sequences, FiniteSets, TLC

\* ------------------------------------------------------------- bounds
\* width of usize, scaled down (the targets have 16, 32 or 64)
UsizeBits == 3
\* most elements of one caller slice
MaxLen == 3
\* most slices handed to one concat_arrays call
MaxArrays == 3
\* most characters of a text drawn from StrAlphabet
MaxStr == 3

\* ------------------------------------------------------------- domains
RECURSIVE Pow2(_)
Pow2(n) == IF n = 0 THEN 1 ELSE 2 * Pow2(n - 1)

USIZE_MAX == Pow2(UsizeBits) - 1
ISIZE_MAX == Pow2(UsizeBits - 1) - 1

Threads == {"t1", "t2"}
SliceIds == {"a", "b"}
\* values of T handed to ternary_operator (the integers of lines 208-249)
Values == {0, 1, 2, 6}
\* elements of a slice of a sized T; a zero-sized T has the one value 0
Elems == {1, 2}
\* ' ', 't', U+00E9, U+20AC, U+1F600: one to four bytes each
StrAlphabet == {32, 116, 233, 8364, 128512}
\* " test " of line 283
UntrimmedTest == <<32, 116, 101, 115, 116, 32>>

Max(a, b) == IF a >= b THEN a ELSE b
Min(a, b) == IF a <= b THEN a ELSE b

SeqsUpTo(S, n) == UNION {[1..k -> S] : k \in 0..n}


\* ------------------------------------------------- ternary_operator
\* the branches taken the wrong way round
ternary_operator_swapped(condition, if_true, if_false) ==
    IF condition THEN if_false ELSE if_true

\* lib.rs 102-104
ternary_operator(condition, if_true, if_false) ==
    IF condition THEN if_true ELSE if_false

\* ---------------------------------------------------- reverse_string
\* char::encode_utf8, which String's collect() applies to every char
encode_utf8(c) ==
    IF c < 128 THEN <<c>>
    ELSE IF c < 2048 THEN <<192 + (c \div 64), 128 + (c % 64)>>
    ELSE IF c < 65536 THEN
        <<224 + (c \div 4096), 128 + ((c \div 64) % 64), 128 + (c % 64)>>
    ELSE <<240 + (c \div 262144), 128 + ((c \div 4096) % 64),
           128 + ((c \div 64) % 64), 128 + (c % 64)>>

utf8_is_cont_byte(b) == b >= 128 /\ b < 192

utf8_acc_cont_byte(ch, b) == ch * 64 + (b % 64)

\* .bytes().rev(): the last storage unit taken for a character
next_byte_reverse(bytes) ==
    [ch |-> bytes[Len(bytes)], rest |-> SubSeq(bytes, 1, Len(bytes) - 1)]

\* Chars::next_back, the step of .chars().rev() on a non-empty text:
\* walks back over the continuation bytes to the leading byte
next_code_point_reverse(bytes) ==
    LET n == Len(bytes)
        w == bytes[n]
    IN  IF w < 128 THEN [ch |-> w, rest |-> SubSeq(bytes, 1, n - 1)]
        ELSE LET z == bytes[n - 1] IN
          IF ~utf8_is_cont_byte(z)
          THEN [ch |-> utf8_acc_cont_byte(z % 32, w),
                rest |-> SubSeq(bytes, 1, n - 2)]
          ELSE LET y == bytes[n - 2] IN
            IF ~utf8_is_cont_byte(y)
            THEN [ch |-> utf8_acc_cont_byte(utf8_acc_cont_byte(y % 16, z), w),
                  rest |-> SubSeq(bytes, 1, n - 3)]
            ELSE LET x == bytes[n - 3] IN
              [ch |-> utf8_acc_cont_byte(
                         utf8_acc_cont_byte(utf8_acc_cont_byte(x % 8, y), z), w),
               rest |-> SubSeq(bytes, 1, n - 4)]

\* the character's storage units pushed last first
push_units_reversed(string, ch) ==
    LET u == encode_utf8(ch)
    IN  string \o [i \in 1..Len(u) |-> u[Len(u) + 1 - i]]

\* white space left out
push_trimmed(string, ch) == IF ch = 32 THEN string ELSE string \o encode_utf8(ch)

\* String::push of collect(): the character's bytes go after those held
push(string, ch) == string \o encode_utf8(ch)

RECURSIVE collect(_, _)
collect(iter, string) ==
    IF iter = <<>> THEN string
    ELSE LET nx == next_code_point_reverse(iter)
         IN  collect(nx.rest, push(string, nx.ch))

\* lib.rs 139-141
reverse_string(string_value) == collect(string_value, <<>>)

\* ----------------------------------------------------- concat_arrays
\* arrays.len() in its place: the slices counted, not their elements
sum_of_count(lens, acc, checks) == [panic |-> FALSE, value |-> Len(lens)]

\* arrays.iter().map(|arr| arr.len()).sum() in usize: the addition panics
\* when it leaves usize in a build with overflow checks (debug), and wraps
\* in one without (release)
RECURSIVE sum(_, _, _)
sum(lens, acc, checks) ==
    IF lens = <<>> THEN [panic |-> FALSE, value |-> acc]
    ELSE LET s == acc + Head(lens) IN
         IF s > USIZE_MAX /\ checks THEN [panic |-> TRUE, value |-> acc]
         ELSE sum(Tail(lens), s % (USIZE_MAX + 1), checks)

\* a capacity one short of the request
with_capacity_short(n, size) ==
    IF size = 0 THEN [panic |-> FALSE, cap |-> USIZE_MAX, allocs |-> 0]
    ELSE IF n * size > ISIZE_MAX THEN [panic |-> TRUE, cap |-> 0, allocs |-> 0]
    ELSE [panic |-> FALSE, cap |-> Max(n - 1, 0),
          allocs |-> IF n <= 1 THEN 0 ELSE 1]

\* Vec::with_capacity(n) for elements of `size` bytes: a zero-sized T never
\* allocates and has capacity usize::MAX; otherwise more than isize::MAX
\* bytes is a "capacity overflow" panic, and n = 0 does not allocate
with_capacity(n, size) ==
    IF size = 0 THEN [panic |-> FALSE, cap |-> USIZE_MAX, allocs |-> 0]
    ELSE IF n * size > ISIZE_MAX THEN [panic |-> TRUE, cap |-> 0, allocs |-> 0]
    ELSE [panic |-> FALSE, cap |-> n, allocs |-> IF n = 0 THEN 0 ELSE 1]

\* Vec::append in its place: the elements are moved out of the source
append(vec, cap, arr, size) ==
    [panic |-> FALSE, vec |-> vec \o arr, cap |-> Max(cap, Len(vec) + Len(arr)),
     grew |-> 0, src |-> <<>>]

\* the slice pushed one element short
extend_from_slice_short(vec, cap, arr, size) ==
    [panic |-> FALSE, vec |-> vec \o SubSeq(arr, 1, Len(arr) - 1),
     cap |-> Max(cap, Len(vec) + Len(arr)), grew |-> 0, src |-> arr]

\* the slice put in front of what the vector holds
extend_from_slice_front(vec, cap, arr, size) ==
    [panic |-> FALSE, vec |-> arr \o vec,
     cap |-> Max(cap, Len(vec) + Len(arr)), grew |-> 0, src |-> arr]

\* Vec::extend_from_slice(arr): reserve(arr.len()), then the elements are
\* copied to the end.  reserve grows only when the spare capacity is short:
\* to max(2 * cap, len + additional), a "capacity overflow" panic when that
\* is more than isize::MAX bytes or T is zero-sized (the least capacity of
\* 4 or 8 elements that a first allocation gets is left out: it is of the
\* order of the whole of a usize this narrow).  src is the slice as the call
\* leaves it.
extend_from_slice(vec, cap, arr, size) ==
    LET additional == Len(arr)
        required == Len(vec) + additional
        new_cap == Max(cap * 2, required)
    IN  IF cap - Len(vec) >= additional
        THEN [panic |-> FALSE, vec |-> vec \o arr, cap |-> cap, grew |-> 0,
              src |-> arr]
        ELSE IF size = 0 \/ required > USIZE_MAX \/ new_cap * size > ISIZE_MAX
        THEN [panic |-> TRUE, vec |-> vec, cap |-> cap, grew |-> 0, src |-> arr]
        ELSE [panic |-> FALSE, vec |-> vec \o arr, cap |-> new_cap, grew |-> 1,
              src |-> arr]

\* lib.rs 184-186: the loop from the k-th slice on
RECURSIVE extend_loop(_, _, _, _, _, _)
extend_loop(as, h, k, vec, cap, size) ==
    IF k > Len(as) THEN [panic |-> FALSE, vec |-> vec]
    ELSE LET e == extend_from_slice(vec, cap, h[as[k]], size) IN
         IF e.panic THEN [panic |-> TRUE, vec |-> <<>>]
         ELSE extend_loop(as, [h EXCEPT ![as[k]] = e.src], k + 1, e.vec, e.cap,
                          size)

\* lib.rs 180-189, run on its own from start to end: as are the references,
\* h the memory they point into
concat_arrays(as, h, size, checks) ==
    LET total == sum([k \in 1..Len(as) |-> Len(h[as[k]])], 0, checks)
        v == with_capacity(total.value, size)
    IN  IF total.panic \/ v.panic THEN [panic |-> TRUE, vec |-> <<>>]
        ELSE extend_loop(as, h, 1, <<>>, v.cap, size)

\* ------------------------------------------------------------- state
VARIABLES
    heap,            \* caller-owned memory: the elements of each slice lent
    elem_size,       \* size_of::<T>() of the T the build instantiates
    overflow_checks, \* whether the build checks integer overflow
    pc,              \* where each thread is
    condition, if_true, if_false, result,            \* ternary_operator
    inner,           \* the arguments of the call whose value is if_true
    string_value, iter, reversed,                    \* reverse_string
    arrays, vector_size, capacity, allocs, result_vector, idx,
    heap_at_call     \* the memory as it was when the thread made its call

vars == <<heap, elem_size, overflow_checks, pc, condition, if_true, if_false,
          inner, result, string_value, iter, reversed, arrays, vector_size,
          capacity, allocs, result_vector, idx, heap_at_call>>

ternary_vars == <<condition, if_true, if_false, inner, result>>
reverse_vars == <<string_value, iter, reversed>>
concat_vars == <<arrays, vector_size, capacity, allocs, result_vector, idx,
                 heap_at_call>>
build_vars == <<elem_size, overflow_checks>>

NoHeap == [s \in SliceIds |-> <<>>]

\* the slices a caller can hold: of at most isize::MAX bytes, and of at
\* most usize::MAX elements when T is zero-sized
Slices(size, maxLen) ==
    IF size = 0 THEN SeqsUpTo({0}, Min(maxLen, USIZE_MAX))
    ELSE SeqsUpTo(Elems, Min(maxLen, ISIZE_MAX \div size))

RECURSIVE Utf8(_)
Utf8(chars) ==
    IF chars = <<>> THEN <<>> ELSE encode_utf8(Head(chars)) \o Utf8(Tail(chars))

\* the texts a caller can hold: &str is valid UTF-8
Texts(alphabet, maxChars) == {Utf8(cs) : cs \in SeqsUpTo(alphabet, maxChars)}

\* the threads that hold the slices borrowed: during a concat_arrays call
\* and until its caller has looked at what it returned
Borrowing == {t \in Threads : pc[t] \in {"sum", "alloc", "loop", "concat_done", "panic"}}

Init ==
    /\ elem_size \in {0, 1}
    /\ overflow_checks \in BOOLEAN
    /\ heap = NoHeap
    /\ pc = [t \in Threads |-> "idle"]
    /\ condition = [t \in Threads |-> FALSE]
    /\ if_true = [t \in Threads |-> 0]
    /\ if_false = [t \in Threads |-> 0]
    /\ inner = [t \in Threads |-> <<>>]
    /\ result = [t \in Threads |-> 0]
    /\ string_value = [t \in Threads |-> <<>>]
    /\ iter = [t \in Threads |-> <<>>]
    /\ reversed = [t \in Threads |-> <<>>]
    /\ arrays = [t \in Threads |-> <<>>]
    /\ vector_size = [t \in Threads |-> 0]
    /\ capacity = [t \in Threads |-> 0]
    /\ allocs = [t \in Threads |-> 0]
    /\ result_vector = [t \in Threads |-> <<>>]
    /\ idx = [t \in Threads |-> 0]
    /\ heap_at_call = [t \in Threads |-> NoHeap]

\* ----------------------------------------------------------- actions
\* a caller evaluates both values, then calls ternary_operator (lib.rs 102)
CallTernary(t, values) ==
    /\ pc[t] = "idle"
    /\ \E c \in BOOLEAN, a \in values, b \in values :
         /\ condition' = [condition EXCEPT ![t] = c]
         /\ if_true' = [if_true EXCEPT ![t] = a]
         /\ if_false' = [if_false EXCEPT ![t] = b]
    /\ inner' = [inner EXCEPT ![t] = <<>>]
    /\ pc' = [pc EXCEPT ![t] = "ternary"]
    /\ UNCHANGED <<heap, build_vars, result, reverse_vars, concat_vars>>

\* a nested use (lib.rs 95, 245, 249): the value ternary_operator returned
\* is the if_true of the next call
CallTernaryNested(t, values) ==
    /\ pc[t] = "ternary_done"
    /\ inner[t] = <<>>
    /\ \E c \in BOOLEAN, b \in values :
         /\ condition' = [condition EXCEPT ![t] = c]
         /\ if_true' = [if_true EXCEPT ![t] = result[t]]
         /\ if_false' = [if_false EXCEPT ![t] = b]
    /\ inner' = [inner EXCEPT ![t] = <<condition[t], if_true[t], if_false[t]>>]
    /\ pc' = [pc EXCEPT ![t] = "ternary"]
    /\ UNCHANGED <<heap, build_vars, result, reverse_vars, concat_vars>>

\* lib.rs 103
Ternary(t) ==
    /\ pc[t] = "ternary"
    /\ result' = [result EXCEPT
         ![t] = ternary_operator(condition[t], if_true[t], if_false[t])]
    /\ pc' = [pc EXCEPT ![t] = "ternary_done"]
    /\ UNCHANGED <<heap, build_vars, condition, if_true, if_false, inner,
                   reverse_vars, concat_vars>>

\* lib.rs 139-140: .chars().rev() is an iterator over the whole text
CallReverse(t, texts) ==
    /\ pc[t] = "idle"
    /\ \E s \in texts :
         /\ string_value' = [string_value EXCEPT ![t] = s]
         /\ iter' = [iter EXCEPT ![t] = s]
    /\ reversed' = [reversed EXCEPT ![t] = <<>>]
    /\ pc' = [pc EXCEPT ![t] = "collect"]
    /\ UNCHANGED <<heap, build_vars, ternary_vars, concat_vars>>

\* lib.rs 140: collect() takes the next character from the back and pushes it
CollectNext(t) ==
    /\ pc[t] = "collect"
    /\ iter[t] # <<>>
    /\ LET nx == next_code_point_reverse(iter[t]) IN
         /\ iter' = [iter EXCEPT ![t] = nx.rest]
         /\ reversed' = [reversed EXCEPT ![t] = push(reversed[t], nx.ch)]
    /\ UNCHANGED <<heap, build_vars, pc, ternary_vars, string_value,
                   concat_vars>>

\* lib.rs 140: the iterator is exhausted, the String is returned
CollectEnd(t) ==
    /\ pc[t] = "collect"
    /\ iter[t] = <<>>
    /\ pc' = [pc EXCEPT ![t] = "reverse_done"]
    /\ UNCHANGED <<heap, build_vars, ternary_vars, reverse_vars, concat_vars>>

\* lib.rs 180: the caller has its arrays (anew, unless another thread holds
\* them borrowed: shared references allow no writer) and moves the Vec of
\* references to them into the call
CallConcat(t, maxArrays, maxLen) ==
    /\ pc[t] = "idle"
    /\ \E as \in SeqsUpTo(SliceIds, maxArrays) :
         arrays' = [arrays EXCEPT ![t] = as]
    /\ IF Borrowing = {}
       THEN heap' \in [SliceIds -> Slices(elem_size, maxLen)]
       ELSE heap' = heap
    /\ heap_at_call' = [heap_at_call EXCEPT ![t] = heap']
    /\ pc' = [pc EXCEPT ![t] = "sum"]
    /\ UNCHANGED <<build_vars, ternary_vars, reverse_vars, vector_size,
                   capacity, allocs, result_vector, idx>>

\* lib.rs 181
ComputeSize(t) ==
    /\ pc[t] = "sum"
    /\ LET lens == [k \in 1..Len(arrays[t]) |-> Len(heap[arrays[t][k]])]
           total == sum(lens, 0, overflow_checks)
       IN  /\ vector_size' = [vector_size EXCEPT
                 ![t] = IF total.panic THEN vector_size[t] ELSE total.value]
           /\ pc' = [pc EXCEPT ![t] = IF total.panic THEN "panic" ELSE "alloc"]
    /\ UNCHANGED <<heap, build_vars, ternary_vars, reverse_vars, arrays,
                   capacity, allocs, result_vector, idx, heap_at_call>>

\* lib.rs 182
Allocate(t) ==
    /\ pc[t] = "alloc"
    /\ LET v == with_capacity(vector_size[t], elem_size) IN
         /\ capacity' = [capacity EXCEPT ![t] = v.cap]
         /\ allocs' = [allocs EXCEPT ![t] = v.allocs]
         /\ pc' = [pc EXCEPT ![t] = IF v.panic THEN "panic" ELSE "loop"]
    /\ result_vector' = [result_vector EXCEPT ![t] = <<>>]
    /\ idx' = [idx EXCEPT ![t] = 1]
    /\ UNCHANGED <<heap, build_vars, ternary_vars, reverse_vars, arrays,
                   vector_size, heap_at_call>>

\* lib.rs 184-186: one turn of the loop
Extend(t) ==
    /\ pc[t] = "loop"
    /\ idx[t] <= Len(arrays[t])
    /\ LET arr == arrays[t][idx[t]]
           e == extend_from_slice(result_vector[t], capacity[t], heap[arr],
                                  elem_size)
       IN  /\ result_vector' = [result_vector EXCEPT ![t] = e.vec]
           /\ capacity' = [capacity EXCEPT ![t] = e.cap]
           /\ allocs' = [allocs EXCEPT ![t] = allocs[t] + e.grew]
           /\ heap' = [heap EXCEPT ![arr] = e.src]
           /\ pc' = [pc EXCEPT ![t] = IF e.panic THEN "panic" ELSE "loop"]
           /\ idx' = [idx EXCEPT ![t] = IF e.panic THEN idx[t] ELSE idx[t] + 1]
    /\ UNCHANGED <<build_vars, ternary_vars, reverse_vars, arrays, vector_size,
                   heap_at_call>>

\* lib.rs 184, 188: the loop is over, result_vector is returned
ReturnVector(t) ==
    /\ pc[t] = "loop"
    /\ idx[t] > Len(arrays[t])
    /\ pc' = [pc EXCEPT ![t] = "concat_done"]
    /\ UNCHANGED <<heap, build_vars, ternary_vars, reverse_vars, concat_vars>>

\* the caller has the value (or the panic has unwound) and goes on; arrays
\* that no call holds any more go out of scope
Resume(t) ==
    /\ pc[t] \in {"ternary_done", "reverse_done", "concat_done", "panic"}
    /\ pc' = [pc EXCEPT ![t] = "idle"]
    /\ condition' = [condition EXCEPT ![t] = FALSE]
    /\ if_true' = [if_true EXCEPT ![t] = 0]
    /\ if_false' = [if_false EXCEPT ![t] = 0]
    /\ inner' = [inner EXCEPT ![t] = <<>>]
    /\ result' = [result EXCEPT ![t] = 0]
    /\ string_value' = [string_value EXCEPT ![t] = <<>>]
    /\ iter' = [iter EXCEPT ![t] = <<>>]
    /\ reversed' = [reversed EXCEPT ![t] = <<>>]
    /\ arrays' = [arrays EXCEPT ![t] = <<>>]
    /\ vector_size' = [vector_size EXCEPT ![t] = 0]
    /\ capacity' = [capacity EXCEPT ![t] = 0]
    /\ allocs' = [allocs EXCEPT ![t] = 0]
    /\ result_vector' = [result_vector EXCEPT ![t] = <<>>]
    /\ idx' = [idx EXCEPT ![t] = 0]
    /\ heap_at_call' = [heap_at_call EXCEPT ![t] = NoHeap]
    /\ heap' = IF Borrowing \subseteq {t} THEN NoHeap ELSE heap
    /\ UNCHANGED build_vars

\* --------------------------------------------------- specifications
\* one caller thread, the inputs as wide as the bounds allow
Next ==
    \/ CallTernary("t1", Values)
    \/ CallTernaryNested("t1", Values)
    \/ Ternary("t1")
    \/ CallReverse("t1", Texts(StrAlphabet, MaxStr) \cup {UntrimmedTest})
    \/ CollectNext("t1")
    \/ CollectEnd("t1")
    \/ CallConcat("t1", MaxArrays, MaxLen)
    \/ ComputeSize("t1")
    \/ Allocate("t1")
    \/ Extend("t1")
    \/ ReturnVector("t1")
    \/ Resume("t1")

Spec == Init /\ [][Next]_vars

\* every thread a caller, their steps interleaved; narrower inputs
ConcAlphabet == {116, 233}

NextConc ==
    \E t \in Threads :
        \/ CallTernary(t, {2, 6})
        \/ Ternary(t)
        \/ CallReverse(t, Texts(ConcAlphabet, MaxStr - 1))
        \/ CollectNext(t)
        \/ CollectEnd(t)
        \/ CallConcat(t, MaxArrays - 1, MaxLen - 2)
        \/ ComputeSize(t)
        \/ Allocate(t)
        \/ Extend(t)
        \/ ReturnVector(t)
        \/ Resume(t)

SpecConc == Init /\ [][NextConc]_vars


\* ------------------------------------------- notions the properties use
Reverse(seq) == [i \in 1..Len(seq) |-> seq[Len(seq) + 1 - i]]

RECURSIVE Flatten(_)
Flatten(seqs) == IF seqs = <<>> THEN <<>> ELSE Head(seqs) \o Flatten(Tail(seqs))

RECURSIVE TotalLen(_)
TotalLen(seqs) == IF seqs = <<>> THEN 0 ELSE Len(Head(seqs)) + TotalLen(Tail(seqs))

\* the sequences a call was given: S1, ..., Sn
Inputs(t) == [k \in 1..Len(arrays[t]) |-> heap_at_call[t][arrays[t][k]]]

\* len(S1) + ... + len(S(k-1))
Offset(seqs, k) == TotalLen(SubSeq(seqs, 1, k - 1))

\* the most elements a Vec<T> holds
VecMax == IF elem_size = 0 THEN USIZE_MAX ELSE ISIZE_MAX \div elem_size

\* the number of storage units of the character a leading byte starts
Utf8Width(b) == IF b < 128 THEN 1 ELSE IF b < 224 THEN 2 ELSE IF b < 240 THEN 3 ELSE 4

\* a text cut into its characters' storage units, front to back
RECURSIVE Units(_)
Units(bytes) ==
    IF bytes = <<>> THEN <<>>
    ELSE LET w == Min(Utf8Width(Head(bytes)), Len(bytes))
         IN  <<SubSeq(bytes, 1, w)>> \o Units(SubSeq(bytes, w + 1, Len(bytes)))

\* the character a group of storage units stands for
CodePoint(u) ==
    IF Len(u) = 1 THEN u[1]
    ELSE IF Len(u) = 2 THEN (u[1] % 32) * 64 + (u[2] % 64)
    ELSE IF Len(u) = 3 THEN (u[1] % 16) * 4096 + (u[2] % 64) * 64 + (u[3] % 64)
    ELSE (u[1] % 8) * 262144 + (u[2] % 64) * 4096 + (u[3] % 64) * 64 + (u[4] % 64)

\* the characters of a text, front to back
Chars(bytes) == [i \in 1..Len(Units(bytes)) |-> CodePoint(Units(bytes)[i])]

\* a leading byte followed by exactly its continuation bytes
WellFormedUnit(u) ==
    /\ ~utf8_is_cont_byte(u[1])
    /\ Len(u) = Utf8Width(u[1])
    /\ \A i \in 2..Len(u) : utf8_is_cont_byte(u[i])

WellFormed(bytes) == \A i \in 1..Len(Units(bytes)) : WellFormedUnit(Units(bytes)[i])

HasMultiByte(bytes) == \E i \in 1..Len(bytes) : bytes[i] >= 128

\* ------------------------------------------------------------ claims
\* C1: ternary_operator(condition, a, b) returns a when condition is true and
\* b when it is false, also when a is itself what another ternary_operator
\* call returned: the outer value is then that of the two calls composed.
C1_Select ==
    \A t \in Threads : pc[t] = "ternary_done" =>
        /\ condition[t] => result[t] = if_true[t]
        /\ ~condition[t] => result[t] = if_false[t]
        /\ inner[t] # <<>> =>
             result[t] = (IF condition[t]
                          THEN (IF inner[t][1] THEN inner[t][2] ELSE inner[t][3])
                          ELSE if_false[t])

\* ternary_operator(true, ternary_operator(false, 1, 0), 2) has returned 0
\* (lib.rs 249-250)
C1_Witness ==
    /\ pc["t1"] = "ternary_done"
    /\ inner["t1"] = <<FALSE, 1, 0>>
    /\ condition["t1"] /\ if_false["t1"] = 2
    /\ result["t1"] = 0

\* C2: the vector concat_arrays returns has len(S1) + ... + len(Sn) elements,
\* and the one at offset len(S1) + ... + len(S(k-1)) + j is the j-th of Sk.
C2_Concat ==
    \A t \in Threads : pc[t] = "concat_done" =>
        LET S == Inputs(t) IN
        /\ Len(result_vector[t]) = TotalLen(S)
        /\ \A k \in 1..Len(S) : \A j \in 1..Len(S[k]) :
             result_vector[t][Offset(S, k) + j] = S[k][j]

\* [1, 2] and [1], of different lengths, have been put together
C2_Witness ==
    /\ pc["t1"] = "concat_done"
    /\ arrays["t1"] = <<"a", "b">>
    /\ heap_at_call["t1"]["a"] = <<1, 2>>
    /\ heap_at_call["t1"]["b"] = <<1>>
    /\ result_vector["t1"] = <<1, 2, 1>>

\* C3: reverse_string(s) has as many characters as s, its i-th character the
\* (n-1-i)-th of s (counted from 0): none dropped, added or altered, white
\* space kept; the reverse of the empty text is empty.
C3_Reverse ==
    \A t \in Threads : pc[t] = "reverse_done" =>
        LET cs == Chars(string_value[t])
            rs == Chars(reversed[t])
        IN  /\ Len(rs) = Len(cs)
            /\ \A i \in 1..Len(cs) : rs[i] = cs[Len(cs) + 1 - i]
            /\ string_value[t] = <<>> => reversed[t] = <<>>

\* " test " has been reversed to " tset " (lib.rs 283-285)
C3_Witness ==
    /\ pc["t1"] = "reverse_done"
    /\ string_value["t1"] = UntrimmedTest
    /\ reversed["t1"] = <<32, 116, 115, 101, 116, 32>>

\* C4: reverse_string(reverse_string(s)) = s.
C4_Involution ==
    \A t \in Threads : pc[t] = "reverse_done" =>
        reverse_string(reversed[t]) = string_value[t]

\* a text of three different characters, of 1, 2 and 3 bytes, has been reversed
C4_Witness ==
    /\ pc["t1"] = "reverse_done"
    /\ string_value["t1"] = Utf8(<<116, 233, 8364>>)
    /\ reversed["t1"] # string_value["t1"]

\* C5: concat_arrays of no sequence returns the empty vector, and of exactly
\* one sequence S a vector equal to S; neither call panics.
C5_EmptyAndSingle ==
    \A t \in Threads :
        /\ pc[t] = "concat_done" /\ arrays[t] = <<>> => result_vector[t] = <<>>
        /\ pc[t] = "concat_done" /\ Len(arrays[t]) = 1 =>
             result_vector[t] = heap_at_call[t][arrays[t][1]]
        /\ pc[t] = "panic" => Len(arrays[t]) >= 2

\* the one sequence [2, 1, 1] has been returned as it is
C5_Witness ==
    /\ pc["t1"] = "concat_done"
    /\ Len(arrays["t1"]) = 1
    /\ result_vector["t1"] = <<2, 1, 1>>

\* C6: reverse_string reverses the characters and keeps the storage units of
\* each together and in order: the text returned is the units of s, character
\* by character from the last to the first, is well-formed, and is not the
\* storage units of s reversed when s has a character of several units.
C6_MultiByte ==
    \A t \in Threads : pc[t] = "reverse_done" =>
        /\ reversed[t] = Flatten(Reverse(Units(string_value[t])))
        /\ WellFormed(reversed[t])
        /\ HasMultiByte(string_value[t]) => reversed[t] # Reverse(string_value[t])

\* U+00E9 U+1F600 (2 and 4 bytes) has been reversed
C6_Witness ==
    /\ pc["t1"] = "reverse_done"
    /\ string_value["t1"] = <<195, 169, 240, 159, 152, 128>>
    /\ reversed["t1"] = <<240, 159, 152, 128, 195, 169>>

\* the sum of line 181 wraps around: no overflow checks, and more elements
\* than usize counts
Wraps(t) == ~overflow_checks /\ TotalLen(Inputs(t)) > USIZE_MAX

InConcat(t) == pc[t] \in {"sum", "alloc", "loop", "concat_done", "panic"}

\* C7, as claimed: no concat_arrays call overflows or panics.
C7_NeverPanics == \A t \in Threads : pc[t] # "panic"

\* C7, amended: a concat_arrays call whose sequences have no more elements
\* together than a vector holds neither overflows (the count it computes is
\* their number) nor panics; the calls that panic are those with more, and
\* none of them returns.
C7_TotalWithinCapacity ==
    \A t \in Threads :
        /\ InConcat(t) /\ TotalLen(Inputs(t)) <= VecMax =>
             /\ pc[t] # "panic"
             /\ pc[t] # "sum" => vector_size[t] = TotalLen(Inputs(t))
        /\ pc[t] = "concat_done" => TotalLen(Inputs(t)) <= VecMax

\* a call has returned a vector filled to the last element a Vec<T> holds
C7_Witness ==
    /\ pc["t1"] = "concat_done"
    /\ Len(arrays["t1"]) = 3
    /\ TotalLen(Inputs("t1")) = VecMax
    /\ Len(result_vector["t1"]) = VecMax

\* C8: concat_arrays leaves its inputs as they were: during the call and
\* when it has returned every sequence has the elements it had at the call;
\* the vector returned holds those elements.
C8_InputsUntouched ==
    \A t \in Threads : InConcat(t) =>
        /\ heap = heap_at_call[t]
        /\ pc[t] = "concat_done" => result_vector[t] = Flatten(Inputs(t))

\* a call given the same non-empty slice twice, and another, has returned
C8_Witness ==
    /\ pc["t1"] = "concat_done"
    /\ arrays["t1"] = <<"a", "b", "a">>
    /\ heap["a"] = <<2>> /\ heap["b"] = <<1>>
    /\ result_vector["t1"] = <<2, 1, 2>>

\* what the call a thread is in returns when it runs on its own
Alone(t) ==
    concat_arrays(arrays[t], heap_at_call[t], elem_size, overflow_checks)

\* C9: calls running on several threads, their steps interleaved in any way,
\* return what they return run on their own.
C9_Interleaved ==
    \A t \in Threads :
        /\ pc[t] = "ternary_done" =>
             result[t] = ternary_operator(condition[t], if_true[t], if_false[t])
        /\ pc[t] = "reverse_done" => reversed[t] = reverse_string(string_value[t])
        /\ pc[t] = "concat_done" =>
             ~Alone(t).panic /\ result_vector[t] = Alone(t).vec
        /\ pc[t] = "panic" => Alone(t).panic

\* two concat_arrays calls given the same slice have run at the same time:
\* one has returned while the other is in the middle of its loop, and a third
\* kind of call, reverse_string, is not needed for it
C9_Witness ==
    /\ pc["t1"] = "concat_done" /\ pc["t2"] = "loop"
    /\ arrays["t1"] = <<"a", "b">> /\ arrays["t2"] = <<"b", "a">>
    /\ idx["t2"] = 2
    /\ heap["a"] # <<>> /\ heap["b"] # <<>>
    /\ result_vector["t1"] = heap["a"] \o heap["b"]

=============================================================================
